---- MODULE Spec2Model ----
(***************************************************************************)
(* Model of streamlit_meta_state/core.py: the SessionVar descriptor, its   *)
(* _Wrapper, and the MetaSessionState metaclass, running against the       *)
(* per-session key/value store returned by get_session_state().            *)
(*                                                                         *)
(* Strings are sequences of tokens, so that the two f-strings that derive  *)
(* keys are modelled as the concatenations they perform.                   *)
(***************************************************************************)
EXTENDS Integers, Sequences, FiniteSets, TLC

\* ---------------------------------------------------------------- bounds
\* Number of instances cls.__new__ may allocate in one session.
MaxInstances == 2

\* ------------------------------------------------------- the class under use
\* cls.__module__ and cls.__name__ of the one managed class.
ClsModule == <<"m">>
ClsName == <<"C">>
\* Names in the class's __annotations__, each replaced by a SessionVar.
Fields == {"f"}
\* Caller-supplied identifiers (the instance_key keyword argument).
Ids == { <<>>, <<"a">>, <<"a", ".", "f">> }

\* ------------------------------------------------------------------ values
\* Python values are pairs <<tag, n>>.
None == <<"none", 0>>
Scalars == { <<"int", 1>> }
\* One object that accepts new attributes (its attributes are in objAttrs).
Obj == <<"obj", 1>>
\* Values the application assigns to fields; None is what a read of an absent
\* key yields.
Values == Scalars \cup {Obj}
InstRef(id) == <<"inst", id>>
IsInstRef(v) == v[1] = "inst"
SessionVarRef == <<"SessionVar", 0>>
\* Attribute names the application assigns on a wrapper.
AttrNames == {"_value", "_key", "key"}
ObjAttrNames == {"key"}
Unset == <<"unset", 0>>

\* Exceptions (NoError: the operation returned normally).
NoError == "none"
KeyErr == "KeyError"
InvalidKeyErr == "StreamlitAPIException"
AttributeErr == "AttributeError"
InitErr == "InitializerError"

VARIABLES
    state,    \* the session store: key -> value
    heap,     \* allocated instances: id -> [instance_key, dict, returned]
    objAttrs, \* attributes of Obj
    ret,      \* value returned by the latest class call / class attribute read
    err,      \* exception raised by the latest operation, or NoError
    last,     \* the latest operation and its arguments
    first,    \* history: instance key -> id of the first instance stored under it
    written   \* history: <<id, field>> -> value of the latest assignment to it

vars == <<state, heap, objAttrs, ret, err, last, first, written>>

\* ---------------------------------------------------------------- helpers
NoWrapper == [value |-> None, key |-> <<>>, descriptor |-> "", instance |-> 0]

\* SessionVar._Wrapper.__init__
Wrapper(value, key, descriptor, instance) ==
    [value |-> value, key |-> key, descriptor |-> descriptor, instance |-> instance]

\* _Wrapper.key
WrapperKey(w) == w.key

\* _Wrapper.__eq__
WrapperEq(w, other) == w.value = other

\* state[key] = v on the session store
StorePut(st, key, v) ==
    [k \in (DOMAIN st) \cup {key} |-> IF k = key THEN v ELSE st[k]]

\* require_valid_user_key of the pinned streamlit release: a user key must not
\* begin with the prefix reserved for generated element ids.
ReservedPrefix == "$$ID"
ValidUserKey(key) == ~(Len(key) >= 1 /\ key[1] = ReservedPrefix)

\* MetaSessionState.__call__: f"{cls.__module__}_{cls.__name__}_{instance_key}"
InstanceKey(id) == ClsModule \o <<"_">> \o ClsName \o <<"_">> \o id

\* SessionVar._make_key: f"{instance.__instance_key__}.{self.name}"
MakeKey(inst, name) == inst.instance_key \o <<".", name>>

Op(op, id, inst, field, name, hasKey) ==
    [op |-> op, id |-> id, inst |-> inst, field |-> field, name |-> name, hasKey |-> hasKey]


\* User initializers: the fields __init__ assigns (in order), the argument
\* value it assigns to them, and whether it raises afterwards.
InitWrites == { <<>>, <<"f">> }
Inits == [writes : InitWrites, arg : Scalars, fails : BOOLEAN]

NewInstance(ikey) ==
    [instance_key |-> ikey,
     dict |-> [f \in Fields |-> NoWrapper],
     attrs |-> [n \in ObjAttrNames |-> Unset],
     returned |-> FALSE]

\* Instances the application holds a reference to.
Handles == { i \in 1..Len(heap) : heap[i].returned }

\* ------------------------------------------------------------ SessionVar
\* __set__ that refreshes the cached wrapper but never reaches the store.
DoSet_NoStore(s, id, name, v) ==
    LET key == MakeKey(s.heap[id], name)
        wrapped == Wrapper(v, key, name, id)
    IN  [state |-> s.state,
         heap |-> [s.heap EXCEPT ![id].dict[name] = wrapped],
         written |-> [s.written EXCEPT ![<<id, name>>] = v],
         err |-> NoError]

\* SessionVar.__set__ on the pair s = [state, heap, written, err].
DoSet(s, id, name, v) ==
    LET key == MakeKey(s.heap[id], name)
        wrapped == Wrapper(v, key, name, id)
    IN  IF ~ValidUserKey(key)
        THEN [s EXCEPT !.err = InvalidKeyErr]
        ELSE [state |-> StorePut(s.state, key, v),
              heap |-> [s.heap EXCEPT ![id].dict[name] = wrapped],
              written |-> [s.written EXCEPT ![<<id, name>>] = v],
              err |-> NoError]

\* A lookup that answers from instance.__dict__ when a wrapper is cached there
\* (what Python would do were SessionVar not a data descriptor).
RetrieveValue_Cached(id, name) ==
    LET key == MakeKey(heap[id], name)
    IN  IF heap[id].dict[name] # NoWrapper THEN heap[id].dict[name].value
        ELSE IF key \in DOMAIN state THEN state[key] ELSE None

\* A lookup that raises nothing but yields a default other than None.
RetrieveValue_Default(id, name) ==
    LET key == MakeKey(heap[id], name)
    IN  IF key \in DOMAIN state THEN state[key] ELSE <<"int", 1>>

\* "if key in state: value = state[key] else: value = None" of __get__
RetrieveValue(id, name) ==
    LET key == MakeKey(heap[id], name)
    IN  IF key \in DOMAIN state THEN state[key] ELSE None

\* SessionVar.__get__; id = 0 is access through the class (instance is None).
Get(id, name) ==
    /\ last' = Op("get", <<>>, id, name, "", FALSE)
    /\ IF id = 0
       THEN /\ ret' = SessionVarRef
            /\ err' = NoError
            /\ UNCHANGED <<state, heap, objAttrs, first, written>>
       ELSE LET key == MakeKey(heap[id], name)
                wrapped == Wrapper(RetrieveValue(id, name), key, name, id)
            IN  IF ~ValidUserKey(key)
                THEN /\ err' = InvalidKeyErr
                     /\ ret' = None
                     /\ UNCHANGED <<state, heap, objAttrs, first, written>>
                ELSE /\ heap' = [heap EXCEPT ![id].dict[name] = wrapped]
                     /\ ret' = None
                     /\ err' = NoError
                     /\ UNCHANGED <<state, objAttrs, first, written>>

\* Assignment to an annotated attribute of an instance: SessionVar.__set__.
Set(id, name, v) ==
    LET s == DoSet([state |-> state, heap |-> heap, written |-> written, err |-> NoError],
                   id, name, v)
    IN  /\ last' = Op("set", <<>>, id, name, "", FALSE)
        /\ state' = s.state
        /\ heap' = s.heap
        /\ written' = s.written
        /\ err' = s.err
        /\ ret' = None
        /\ UNCHANGED <<objAttrs, first>>

\* ------------------------------------------------------- MetaSessionState
\* instance.__init__(*args, **kwargs): the assignments of the initializer,
\* each one a SessionVar.__set__, stopping at the first exception.
RECURSIVE RunInit(_, _, _, _)
RunInit(s, id, writes, v) ==
    IF writes = <<>> \/ s.err # NoError
    THEN s
    ELSE RunInit(DoSet(s, id, Head(writes), v), id, Tail(writes), v)

\* A call that never misses its keyword (kwargs.pop with a default).
MissingInstanceKey_Never(hasKey) == FALSE

\* '"instance_key" not in kwargs'
MissingInstanceKey(hasKey) == ~hasKey

\* 'instance_key not in state'
Miss(ikey) == ikey \notin DOMAIN state

\* MetaSessionState.__call__
Construct(hasKey, id, init) ==
    /\ last' = Op("call", id, 0, "", "", hasKey)
    /\ UNCHANGED objAttrs
    /\ IF MissingInstanceKey(hasKey)
       THEN /\ err' = KeyErr
            /\ ret' = None
            /\ UNCHANGED <<state, heap, first, written>>
       ELSE LET ikey == InstanceKey(id) IN
            IF ~ValidUserKey(ikey)
            THEN /\ err' = InvalidKeyErr
                 /\ ret' = None
                 /\ UNCHANGED <<state, heap, first, written>>
            ELSE IF Miss(ikey)
            THEN /\ Len(heap) < MaxInstances
                 /\ LET newId == Len(heap) + 1
                        s0 == [state |-> state,
                               heap |-> Append(heap, NewInstance(ikey)),
                               written |-> written,
                               err |-> NoError]
                        s1 == RunInit(s0, newId, init.writes, init.arg)
                    IN  IF s1.err # NoError \/ init.fails
                        THEN /\ err' = (IF s1.err # NoError THEN s1.err ELSE InitErr)
                             /\ ret' = None
                             /\ state' = s1.state
                             /\ heap' = s1.heap
                             /\ written' = s1.written
                             /\ UNCHANGED first
                        ELSE /\ state' = StorePut(s1.state, ikey, InstRef(newId))
                             /\ heap' = [s1.heap EXCEPT ![newId].returned = TRUE]
                             /\ written' = s1.written
                             /\ first' = (IF ikey \in DOMAIN first THEN first
                                          ELSE StorePut(first, ikey, newId))
                             /\ ret' = state'[ikey]
                             /\ err' = NoError
            ELSE /\ ret' = state[ikey]
                 /\ err' = NoError
                 /\ UNCHANGED <<state, heap, first, written>>

\* ---------------------------------------------------------------- _Wrapper
ProtectedNames == {"_value", "_key", "_descriptor", "_instance"}

\* The wrapper the application obtained from instance id's attribute name:
\* the object __get__ / __set__ left in instance.__dict__[name].
WrapperOf(id, name) == heap[id].dict[name]

\* _Wrapper.__setattr__ on that wrapper.
WrapperSetAttr(id, name, attr, v) ==
    LET w == WrapperOf(id, name) IN
    /\ w # NoWrapper
    /\ last' = Op("setattr", <<>>, 0, "", attr, FALSE)
    /\ ret' = None
    /\ UNCHANGED <<state, first, written>>
    /\ IF attr \in ProtectedNames
       THEN /\ err' = AttributeErr
            /\ UNCHANGED <<heap, objAttrs>>
       ELSE \* setattr(self._value, name, value)
            IF w.value = Obj
            THEN /\ objAttrs' = [objAttrs EXCEPT ![attr] = v]
                 /\ err' = NoError
                 /\ UNCHANGED heap
            ELSE IF IsInstRef(w.value)
            THEN /\ heap' = [heap EXCEPT ![w.value[2]].attrs[attr] = v]
                 /\ err' = NoError
                 /\ UNCHANGED objAttrs
            ELSE /\ err' = AttributeErr
                 /\ UNCHANGED <<heap, objAttrs>>

\* ------------------------------------------------------------ the session
\* A write to the store under a field key that does not go through the
\* descriptor (the key is public through _Wrapper.key).
StoreWrite(id, name, v) ==
    /\ last' = Op("store", <<>>, id, name, "", FALSE)
    /\ state' = StorePut(state, MakeKey(heap[id], name), v)
    /\ written' = [written EXCEPT ![<<id, name>>] = v]
    /\ ret' = None
    /\ err' = NoError
    /\ UNCHANGED <<heap, objAttrs, first>>

Init ==
    /\ state = [k \in {} |-> None]
    /\ heap = <<>>
    /\ objAttrs = [n \in ObjAttrNames |-> Unset]
    /\ ret = None
    /\ err = NoError
    /\ last = Op("start", <<>>, 0, "", "", FALSE)
    /\ first = [k \in {} |-> 0]
    /\ written = [p \in (1..MaxInstances) \X Fields |-> Unset]

Next ==
    \/ \E id \in Ids, init \in Inits : Construct(TRUE, id, init)
    \/ \E init \in Inits : Construct(FALSE, <<>>, init)
    \/ \E id \in Handles \cup {0}, name \in Fields : Get(id, name)
    \/ \E id \in Handles, name \in Fields, v \in Values : Set(id, name, v)
    \/ \E id \in Handles, name \in Fields, attr \in AttrNames, v \in Scalars :
            WrapperSetAttr(id, name, attr, v)

Spec == Init /\ [][Next]_vars

NextExt ==
    \/ Next
    \/ \E id \in Handles, name \in Fields, v \in Scalars : StoreWrite(id, name, v)

SpecExt == Init /\ [][NextExt]_vars

TypeOK ==
    /\ \A k \in DOMAIN state : state[k] \in Values \/ IsInstRef(state[k])
    /\ \A i \in 1..Len(heap), f \in Fields : heap[i].dict[f].value \in Values \cup {None} \/ IsInstRef(heap[i].dict[f].value)
    /\ Len(heap) <= MaxInstances
    /\ err \in {NoError, KeyErr, InvalidKeyErr, AttributeErr, InitErr}


\* ------------------------------------------------------------------ claims
LastKey == InstanceKey(last.id)
LastFieldKey == MakeKey(heap[last.inst], last.field)
LastWrapper == WrapperOf(last.inst, last.field)
StoreValue(key) == IF key \in DOMAIN state THEN state[key] ELSE None
IsCall == last.op = "call" /\ last.hasKey
IsFieldOp(op) == last.op = op /\ last.inst # 0

\* C1: a call with an identifier under which an instance was constructed
\* before returns that very instance, allocates nothing, runs no initializer
\* and changes nothing in the store.
C1_SecondCallIsCacheHit ==
    [][(last'.op = "call" /\ last'.hasKey /\ InstanceKey(last'.id) \in DOMAIN first)
        => /\ err' = NoError
           /\ ret' = InstRef(first[InstanceKey(last'.id)])
           /\ heap' = heap
           /\ state' = state]_vars

\* C2: every successful construction returns a managed instance stamped with
\* the instance key of the identifier it was called with, and the field keys
\* of the instances the application holds are pairwise distinct and distinct
\* from every instance key.
C2_DistinctInstancesDistinctStorage ==
    /\ (IsCall /\ err = NoError)
          => (IsInstRef(ret) /\ heap[ret[2]].instance_key = LastKey)
    /\ \A i \in Handles, j \in Handles, f \in Fields, g \in Fields :
          /\ (<<i, f>> # <<j, g>>) => MakeKey(heap[i], f) # MakeKey(heap[j], g)
          /\ MakeKey(heap[i], f) # heap[j].instance_key

\* C3: every instance key under which an instance was constructed is in the
\* store and maps to the first instance constructed under it.
C3_InstanceEntryIsPermanent ==
    \A k \in DOMAIN first : k \in DOMAIN state /\ state[k] = InstRef(first[k])

\* C4: a read of a field that has been written returns a wrapper of the value
\* of the latest write, equal to it under __eq__, and the store holds that
\* raw value under the field key; the same holds right after the write.
C4_WriteThenRead ==
    ((IsFieldOp("get") \/ IsFieldOp("set")) /\ err = NoError
        /\ written[<<last.inst, last.field>>] # Unset)
    => LET v == written[<<last.inst, last.field>>] IN
       /\ LastWrapper.value = v
       /\ WrapperEq(LastWrapper, v)
       /\ WrapperKey(LastWrapper) = LastFieldKey
       /\ LastFieldKey \in DOMAIN state
       /\ state[LastFieldKey] = v

C4_Witness ==
    /\ IsFieldOp("get") /\ err = NoError
    /\ written[<<last.inst, last.field>>] = Obj
    /\ LastWrapper.value = Obj
    /\ state[LastFieldKey] = Obj

C6_MissingKeyStoresNothing ==
    [][(last'.op = "call" /\ ~last'.hasKey)
        => /\ err' = KeyErr
           /\ state' = state
           /\ heap' = heap
           /\ written' = written]_vars

C6_Witness ==
    /\ last.op = "call" /\ ~last.hasKey
    /\ err = KeyErr
    /\ DOMAIN state # {}

\* C7: a call whose identifier is empty or is itself an invalid key raises the
\* invalid-key error.
C7_EmptyIdentifierRejected ==
    (IsCall /\ (last.id = <<>> \/ ~ValidUserKey(last.id))) => err = InvalidKeyErr

\* C8: an assignment to a wrapper's key attribute raises AttributeError and
\* changes nothing.
C8_KeyAssignmentRaises ==
    [][(last'.op = "setattr" /\ last'.name = "key")
        => /\ err' = AttributeErr
           /\ objAttrs' = objAttrs
           /\ heap' = heap
           /\ state' = state]_vars

\* C9: a construction whose initializer raises leaves the store as it was
\* before the call.
C9_FailedInitLeavesStore ==
    [][(last'.op = "call" /\ err' = InitErr) => state' = state]_vars

\* C10: right after every read or write through the descriptor the wrapper
\* cached on the instance carries the field key and wraps what the store
\* holds under it (None when the key is absent), whatever was cached before
\* and whoever wrote the store last.
C10_StoreIsSourceOfTruth ==
    ((IsFieldOp("get") \/ IsFieldOp("set")) /\ err = NoError)
    => /\ LastWrapper # NoWrapper
       /\ WrapperKey(LastWrapper) = LastFieldKey
       /\ LastWrapper.value = StoreValue(LastFieldKey)

Stale(id, name) ==
    /\ WrapperOf(id, name) # NoWrapper
    /\ WrapperOf(id, name).value # StoreValue(MakeKey(heap[id], name))

C10_Witness ==
    /\ IsFieldOp("get") /\ err = NoError
    /\ LastWrapper.value = <<"int", 1>>
    /\ \E j \in Handles : j # last.inst /\ Stale(j, last.field)

====
